---- MODULE Spec2Model ----
(***************************************************************************)
(* WebPlatform (src/vector/platform/WebPlatform.js): the browser platform  *)
(* adapter of the client.  The model covers its four stateful parts:       *)
(*   - the favicon badge (notificationCount, errorDidOccur, _updateFavicon)*)
(*   - version polling (runningVersion, _getVersion, getAppVersion,        *)
(*     pollForUpdate)                                                      *)
(*   - the notification permission request                                 *)
(*   - desktop notifications, their click handler and auto-close timer     *)
(* Each part has its own specification over the shared variables.          *)
(***************************************************************************)
EXTENDS Integers, Sequences, FiniteSets, TLC

VARIABLES
    notificationCount,  \* this.notificationCount
    errorDidOccur,      \* this.errorDidOccur
    faviconBadge,       \* arguments of the last this.favicon.badge(...) call
    lastCall,           \* the last badge-related call made on the adapter
    runningVersion,     \* this.runningVersion
    calls,              \* getAppVersion / pollForUpdate calls, in call order
    handlerQueue,       \* polls whose promise settled, in settlement order
    handled,            \* how many of handlerQueue had their handler run
    effects,            \* externally visible effects, in program order
    permReqs,           \* requestNotificationPermission calls
    notifications       \* notifications created by displayNotification

vars == <<notificationCount, errorDidOccur, faviconBadge, lastCall,
          runningVersion, calls, handlerQueue, handled, effects,
          permReqs, notifications>>

badgeVars   == <<notificationCount, errorDidOccur, faviconBadge, lastCall>>
versionVars == <<runningVersion, calls, handlerQueue, handled>>
permVars    == <<permReqs>>
notifVars   == <<notifications>>

----------------------------------------------------------------------------
(* Bounds of the model *)

MaxCount == 4           \* notification counts range over 0..MaxCount
MaxCalls == 3           \* getAppVersion / pollForUpdate calls made
MaxPermRequests == 2    \* requestNotificationPermission calls made
MaxCallbackRuns == 2    \* times the browser may run one permission callback
MaxNotifications == 2   \* displayNotification calls made

----------------------------------------------------------------------------
(* JavaScript values *)

Null == [type |-> "null"]
Undefined == [type |-> "undefined"]
Num(n) == [type |-> "number", num |-> n]
Str(s) == [type |-> "string", str |-> s]    \* s: a sequence of characters
Obj(fields) == [type |-> "object", fields |-> fields]

\* ToBoolean of a number or a string
Truthy(v) ==
    CASE v.type = "number" -> v.num # 0
      [] v.type = "string" -> v.str # <<>>
      [] v.type = "object" -> TRUE
      [] OTHER -> FALSE

\* a || b
Or(a, b) == IF Truthy(a) THEN a ELSE b

\* v == null  (true of null and undefined only)
LooseEqNull(v) == v.type \in {"null", "undefined"}

\* v !== null
StrictNeqNull(v) == v.type # "null"

\* a != b, for two strings
LooseNeq(a, b) == a.str # b.str

\* String.prototype.trim
IsWhite(c) == c \in {" ", "\n", "\t"}

RECURSIVE TrimLeft(_)
TrimLeft(s) == IF s # <<>> /\ IsWhite(Head(s)) THEN TrimLeft(Tail(s)) ELSE s

RECURSIVE TrimRight(_)
TrimRight(s) ==
    IF s # <<>> /\ IsWhite(s[Len(s)])
    THEN TrimRight(SubSeq(s, 1, Len(s) - 1))
    ELSE s

Trim(s) == TrimRight(TrimLeft(s))

\* q promises: a deferred settles once, later resolve/reject calls are ignored
Pending == [state |-> "pending"]
Fulfilled(v) == [state |-> "fulfilled", value |-> v]
Rejected(e) == [state |-> "rejected", reason |-> e]
DeferResolve(p, v) == IF p.state = "pending" THEN Fulfilled(v) ELSE p
DeferReject(p, e) == IF p.state = "pending" THEN Rejected(e) ELSE p

----------------------------------------------------------------------------
(* Favicon badge *)

\* BasePlatform's constructor and setters, inherited through
\* VectorBasePlatform: they only initialise and store the two fields.
BaseInitialCount == Num(0)
BaseInitialError == FALSE
super_setNotificationCount(count) == count
super_setErrorStatus(flag) == flag

\* _updateFavicon with a swapped colour choice
BadgeArgs_Mut(count, err) ==
    [notif   |-> IF err THEN Or(count, Str(<<"×">>)) ELSE count,
     bgColor |-> IF err THEN "#d00" ELSE "#f00"]

\* The arguments _updateFavicon passes to this.favicon.badge
BadgeArgs(count, err) ==
    LET bgColor0 == "#d00"
        notif0   == count
        notif    == IF err THEN Or(notif0, Str(<<"×">>)) ELSE notif0
        bgColor  == IF err THEN "#f00" ELSE bgColor0
    IN  [notif |-> notif, bgColor |-> bgColor]

\* _updateFavicon without its try block
updateFavicon_Mut(count, err, rendererThrows) ==
    [badge   |-> BadgeArgs(count, err),
     warned  |-> FALSE,
     escaped |-> rendererThrows]

\* _updateFavicon: one favicon.badge call; if it throws, the catch block
\* warns and nothing escapes
updateFavicon(count, err, rendererThrows) ==
    [badge   |-> BadgeArgs(count, err),
     warned  |-> rendererThrows,
     escaped |-> FALSE]

Snapshot == [count |-> notificationCount, error |-> errorDidOccur,
             badge |-> faviconBadge]

\* the record of one call: what it was given, the state it found, and what
\* it did (renders: favicon.badge calls made; rendererThrew: that call threw;
\* warned: console.warn ran; escaped: an exception reached the caller)
CallRecord(op, arg, renders, rendererThrew, r) ==
    [op |-> op, arg |-> arg, before |-> Snapshot, renders |-> renders,
     rendererThrew |-> rendererThrew, warned |-> r.warned,
     escaped |-> r.escaped]

NoRender == [warned |-> FALSE, escaped |-> FALSE]

\* setNotificationCount that re-renders on every call
setNotificationCount_Mut(count, rendererThrows) ==
    LET r == updateFavicon(count, errorDidOccur, rendererThrows)
    IN  /\ notificationCount' = super_setNotificationCount(count)
        /\ faviconBadge' = r.badge
        /\ lastCall' = CallRecord("setNotificationCount", count, 1,
                                  rendererThrows, r)
        /\ UNCHANGED errorDidOccur

setNotificationCount(count, rendererThrows) ==
    IF notificationCount = count
    THEN /\ lastCall' = CallRecord("setNotificationCount", count, 0,
                                   FALSE, NoRender)
         /\ UNCHANGED <<notificationCount, errorDidOccur, faviconBadge>>
    ELSE LET r == updateFavicon(count, errorDidOccur, rendererThrows)
         IN  /\ notificationCount' = super_setNotificationCount(count)
             /\ faviconBadge' = r.badge
             /\ lastCall' = CallRecord("setNotificationCount", count, 1,
                                       rendererThrows, r)
             /\ UNCHANGED errorDidOccur

setErrorStatus(flag, rendererThrows) ==
    IF errorDidOccur = flag
    THEN /\ lastCall' = CallRecord("setErrorStatus", flag, 0,
                                   FALSE, NoRender)
         /\ UNCHANGED <<notificationCount, errorDidOccur, faviconBadge>>
    ELSE LET r == updateFavicon(notificationCount, flag, rendererThrows)
         IN  /\ errorDidOccur' = super_setErrorStatus(flag)
             /\ faviconBadge' = r.badge
             /\ lastCall' = CallRecord("setErrorStatus", flag, 1,
                                       rendererThrows, r)
             /\ UNCHANGED notificationCount

Counts == {Num(n) : n \in 0..MaxCount}

SetNotificationCount ==
    /\ \E count \in Counts, t \in BOOLEAN : setNotificationCount(count, t)
    /\ UNCHANGED <<versionVars, effects, permVars, notifVars>>

SetErrorStatus ==
    /\ \E flag \in BOOLEAN, t \in BOOLEAN : setErrorStatus(flag, t)
    /\ UNCHANGED <<versionVars, effects, permVars, notifVars>>

NextBadge == SetNotificationCount \/ SetErrorStatus

\* constructor: the fields as the base class leaves them and one
\* _updateFavicon call; no setter has been called yet
NoCall == [op |-> "none", renders |-> 0, rendererThrew |-> FALSE]

InitBadge ==
    /\ notificationCount = BaseInitialCount
    /\ errorDidOccur = BaseInitialError
    /\ faviconBadge = updateFavicon(BaseInitialCount, BaseInitialError,
                                    FALSE).badge
    /\ lastCall = NoCall

----------------------------------------------------------------------------
(* Version polling *)

\* What the request callback of _getVersion may be handed: a transport
\* error, or a response with a status and a body
NetErr == Obj([message |-> "network error"])
Bodies == {<<"a">>, <<" ", "b", "\n">>, <<" ">>}
EdgeStatuses == {199, 299, 300}

Responses ==
    {[err |-> NetErr, response |-> Undefined, body |-> Undefined]}
    \cup {[err |-> Null, response |-> [status |-> 200], body |-> b] :
            b \in Bodies}
    \cup {[err |-> Null, response |-> [status |-> st], body |-> <<"a">>] :
            st \in EdgeStatuses}

\* the request callback of _getVersion
GetVersionCallback(deferred, err, response, body) ==
    IF Truthy(err) \/ response.status < 200 \/ response.status >= 300
    THEN DeferReject(deferred,
                     IF LooseEqNull(err)
                     THEN Obj([status |-> response.status])
                     ELSE err)
    ELSE DeferResolve(deferred, Str(Trim(body)))

\* the fulfilment handler overwriting the stored version on divergence
PollFulfilled_MutStore(rv, ver) ==
    IF LooseEqNull(rv)
    THEN [runningVersion |-> ver, stored |-> TRUE, dispatch |-> <<>>]
    ELSE IF LooseNeq(rv, ver)
    THEN [runningVersion |-> ver, stored |-> TRUE,
          dispatch |-> <<[action |-> "new_version",
                          currentVersion |-> rv, newVersion |-> ver]>>]
    ELSE [runningVersion |-> rv, stored |-> FALSE, dispatch |-> <<>>]

\* the fulfilment handler signalling on every later poll
PollFulfilled_MutSignal(rv, ver) ==
    IF LooseEqNull(rv)
    THEN [runningVersion |-> ver, stored |-> TRUE, dispatch |-> <<>>]
    ELSE [runningVersion |-> rv, stored |-> FALSE,
          dispatch |-> <<[action |-> "new_version",
                          currentVersion |-> rv, newVersion |-> ver]>>]

\* pollForUpdate's fulfilment handler: the new value of this.runningVersion
\* and the actions handed to dis.dispatch
PollFulfilled(rv, ver) ==
    IF LooseEqNull(rv)
    THEN [runningVersion |-> ver, stored |-> TRUE, dispatch |-> <<>>]
    ELSE IF LooseNeq(rv, ver)
    THEN [runningVersion |-> rv, stored |-> FALSE,
          dispatch |-> <<[action |-> "new_version",
                          currentVersion |-> rv, newVersion |-> ver]>>]
    ELSE [runningVersion |-> rv, stored |-> FALSE, dispatch |-> <<>>]

\* pollForUpdate without a rejection handler: done() rethrows
PollRejected_Mut(err) == [logged |-> FALSE, escaped |-> TRUE]

\* pollForUpdate's rejection handler: console.error only
PollRejected(err) == [logged |-> TRUE, escaped |-> FALSE]

\* getAppVersion that always fetches
getAppVersion_Mut(rv) == [requests |-> 1, promise |-> Pending]

\* getAppVersion: q(this.runningVersion) when it is known, or the promise of
\* a new _getVersion request
getAppVersion(rv) ==
    IF StrictNeqNull(rv)
    THEN [requests |-> 0, promise |-> Fulfilled(rv)]
    ELSE [requests |-> 1, promise |-> Pending]

\* pollForUpdate: one _getVersion request, handlers attached with done()
pollForUpdate ==
    [op |-> "pollForUpdate", requests |-> 1, promise |-> Pending,
     response |-> Null, ran |-> FALSE, stored |-> FALSE, logged |-> FALSE, escaped |-> FALSE]

GetAppVersion ==
    /\ Len(calls) < MaxCalls
    /\ LET c == getAppVersion(runningVersion)
       IN  calls' = Append(calls,
                [op |-> "getAppVersion", rvAtCall |-> runningVersion,
                 requests |-> c.requests, promise |-> c.promise,
                 response |-> Null])
    /\ UNCHANGED <<runningVersion, handlerQueue, handled>>
    /\ UNCHANGED <<badgeVars, effects, permVars, notifVars>>

PollForUpdate ==
    /\ Len(calls) < MaxCalls
    /\ calls' = Append(calls, pollForUpdate)
    /\ UNCHANGED <<runningVersion, handlerQueue, handled>>
    /\ UNCHANGED <<badgeVars, effects, permVars, notifVars>>

InFlight(i) == calls[i].requests = 1 /\ calls[i].promise.state = "pending"

Settle(i, r) ==
    [calls[i] EXCEPT
        !.promise = GetVersionCallback(calls[i].promise, r.err, r.response,
                                       r.body),
        !.response = r]

\* the request of a getAppVersion call completes: its promise settles
GetRequestCompletes ==
    /\ \E i \in 1..Len(calls), r \in Responses :
         /\ calls[i].op = "getAppVersion"
         /\ InFlight(i)
         /\ calls' = [calls EXCEPT ![i] = Settle(i, r)]
    /\ UNCHANGED <<runningVersion, handlerQueue, handled>>
    /\ UNCHANGED <<badgeVars, effects, permVars, notifVars>>

\* the request of a pollForUpdate call completes: its promise settles and
\* its handler is queued for a later turn of the event loop
PollRequestCompletes ==
    /\ \E i \in 1..Len(calls), r \in Responses :
         /\ calls[i].op = "pollForUpdate"
         /\ InFlight(i)
         /\ calls' = [calls EXCEPT ![i] = Settle(i, r)]
         /\ handlerQueue' = Append(handlerQueue, i)
    /\ UNCHANGED <<runningVersion, handled>>
    /\ UNCHANGED <<badgeVars, effects, permVars, notifVars>>

Dispatched(by, actions) ==
    [k \in 1..Len(actions) |->
        [by |-> by, call |-> "dis.dispatch", payload |-> actions[k]]]

\* the next queued handler of a pollForUpdate runs
PollHandlerRuns ==
    /\ handled < Len(handlerQueue)
    /\ LET i == handlerQueue[handled + 1]
           p == calls[i].promise
       IN  IF p.state = "fulfilled"
           THEN LET h == PollFulfilled(runningVersion, p.value)
                IN  /\ runningVersion' = h.runningVersion
                    /\ effects' = effects \o Dispatched(<<"poll", i>>,
                                                        h.dispatch)
                    /\ calls' = [calls EXCEPT ![i].ran = TRUE,
                                              ![i].stored = h.stored]
           ELSE LET h == PollRejected(p.reason)
                IN  /\ calls' = [calls EXCEPT ![i].ran = TRUE,
                                              ![i].logged = h.logged,
                                              ![i].escaped = h.escaped]
                    /\ UNCHANGED <<runningVersion, effects>>
    /\ handled' = handled + 1
    /\ UNCHANGED handlerQueue
    /\ UNCHANGED <<badgeVars, permVars, notifVars>>

NextVersion ==
    \/ GetAppVersion
    \/ PollForUpdate
    \/ GetRequestCompletes
    \/ PollRequestCompletes
    \/ PollHandlerRuns

----------------------------------------------------------------------------
(* Notification permission *)

\* what the browser's permission callback may deliver
PermissionResults ==
    {Str(<<"g", "r", "a", "n", "t", "e", "d">>),
     Str(<<"d", "e", "n", "i", "e", "d">>),
     Str(<<"d", "e", "f", "a", "u", "l", "t">>)}

\* requestNotificationPermission: a new deferred, its promise returned
requestNotificationPermission == [promise |-> Pending, delivered |-> <<>>]

\* a callback that takes the latest answer
PermissionCallback_Mut(defer, result) == Fulfilled(result)

\* the callback handed to Notification.requestPermission
PermissionCallback(defer, result) == DeferResolve(defer, result)

RequestNotificationPermission ==
    /\ Len(permReqs) < MaxPermRequests
    /\ permReqs' = Append(permReqs, requestNotificationPermission)
    /\ UNCHANGED <<badgeVars, versionVars, effects, notifVars>>

\* the browser runs the callback of request i with the user's answer
PermissionCallbackRuns ==
    /\ \E i \in 1..Len(permReqs), result \in PermissionResults :
         /\ Len(permReqs[i].delivered) < MaxCallbackRuns
         /\ permReqs' = [permReqs EXCEPT
               ![i].promise = PermissionCallback(permReqs[i].promise, result),
               ![i].delivered = Append(permReqs[i].delivered, result)]
    /\ UNCHANGED <<badgeVars, versionVars, effects, notifVars>>

NextPerm == RequestNotificationPermission \/ PermissionCallbackRuns

----------------------------------------------------------------------------
(* Desktop notifications *)

Titles == {"title"}
Messages == {"msg"}
AvatarUrls == {"avatar.png"}
Rooms == {[roomId |-> "!a:hs"], [roomId |-> "!b:hs"]}

\* displayNotification that forgets the timer
displayNotification_Mut(title, msg, avatarUrl, room) ==
    [title |-> title, body |-> msg, icon |-> avatarUrl, tag |-> "vector",
     silent |-> TRUE, room |-> room, open |-> TRUE, clicked |-> FALSE,
     timer |-> [state |-> "none", delay |-> 0]]

\* displayNotification: the notification it creates, with its onclick
\* handler bound to room and its close timer armed
displayNotification(title, msg, avatarUrl, room) ==
    [title |-> title, body |-> msg, icon |-> avatarUrl, tag |-> "vector",
     silent |-> TRUE, room |-> room, open |-> TRUE, clicked |-> FALSE,
     timer |-> [state |-> "armed", delay |-> 5 * 1000]]

\* an onclick handler that closes first and dispatches last
OnClick_Mut(n, room) ==
    <<[by |-> <<"click", n>>, call |-> "notification.close"],
      [by |-> <<"click", n>>, call |-> "global.focus"],
      [by |-> <<"click", n>>, call |-> "dis.dispatch",
       payload |-> [action |-> "view_room", room_id |-> room.roomId]]>>

\* notification.onclick: what the handler of notification n does, in order
OnClick(n, room) ==
    <<[by |-> <<"click", n>>, call |-> "dis.dispatch",
       payload |-> [action |-> "view_room", room_id |-> room.roomId]],
      [by |-> <<"click", n>>, call |-> "global.focus"],
      [by |-> <<"click", n>>, call |-> "notification.close"]>>

\* the setTimeout callback of notification n
OnTimeout(n) == <<[by |-> <<"timer", n>>, call |-> "notification.close"]>>

Closes(es) == \E k \in 1..Len(es) : es[k].call = "notification.close"

DisplayNotification ==
    /\ Len(notifications) < MaxNotifications
    /\ \E title \in Titles, msg \in Messages, avatarUrl \in AvatarUrls,
          room \in Rooms :
         notifications' = Append(notifications,
             displayNotification(title, msg, avatarUrl, room))
    /\ UNCHANGED <<badgeVars, versionVars, effects, permVars>>

\* the user clicks notification n while it is on screen
Click(n) ==
    /\ n \in 1..Len(notifications)
    /\ notifications[n].open
    /\ LET es == OnClick(n, notifications[n].room)
       IN  /\ effects' = effects \o es
           /\ notifications' = [notifications EXCEPT
                 ![n].clicked = TRUE,
                 ![n].open = IF Closes(es) THEN FALSE ELSE @]
    /\ UNCHANGED <<badgeVars, versionVars, permVars>>

\* the user or the browser takes notification n off screen
Dismiss(n) ==
    /\ n \in 1..Len(notifications)
    /\ notifications[n].open
    /\ notifications' = [notifications EXCEPT ![n].open = FALSE]
    /\ UNCHANGED <<badgeVars, versionVars, effects, permVars>>

\* the close timer of notification n fires
TimerFires(n) ==
    /\ n \in 1..Len(notifications)
    /\ notifications[n].timer.state = "armed"
    /\ LET es == OnTimeout(n)
       IN  /\ effects' = effects \o es
           /\ notifications' = [notifications EXCEPT
                 ![n].timer.state = "fired",
                 ![n].open = IF Closes(es) THEN FALSE ELSE @]
    /\ UNCHANGED <<badgeVars, versionVars, permVars>>

NextNotif ==
    \/ DisplayNotification
    \/ \E n \in 1..MaxNotifications : Click(n)
    \/ \E n \in 1..MaxNotifications : Dismiss(n)
    \/ \E n \in 1..MaxNotifications : TimerFires(n)

----------------------------------------------------------------------------
(* Specifications *)

Init ==
    /\ InitBadge
    /\ runningVersion = Null
    /\ calls = <<>>
    /\ handlerQueue = <<>>
    /\ handled = 0
    /\ effects = <<>>
    /\ permReqs = <<>>
    /\ notifications = <<>>

SpecBadge == Init /\ [][NextBadge]_vars

SpecVersion == Init /\ [][NextVersion]_vars

SpecPerm == Init /\ [][NextPerm]_vars

SpecNotif == Init /\ [][NextNotif]_vars

\* a timer set with setTimeout does fire
FairNotif ==
    /\ Init
    /\ [][NextNotif]_vars
    /\ \A n \in 1..MaxNotifications : WF_vars(TimerFires(n))

----------------------------------------------------------------------------
(* Properties of the favicon badge *)

Setters == {"setNotificationCount", "setErrorStatus"}

StoredBefore(c) ==
    IF c.op = "setNotificationCount" THEN c.before.count ELSE c.before.error

StoredNow(c) ==
    IF c.op = "setNotificationCount" THEN notificationCount ELSE errorDidOccur

ErrorGlyph == Str(<<"×">>)
ErrorColour == "#f00"
NeutralColour == "#d00"

\* C3: what a render passes to the renderer: with the error flag set, the
\* glyph for a zero count and the count otherwise, in the error colour;
\* with the flag clear, the count itself (zero too) in the neutral colour;
\* the two colours differ.
C3_RenderRule ==
    lastCall.renders = 1 =>
        /\ errorDidOccur =>
              /\ faviconBadge.bgColor = ErrorColour
              /\ faviconBadge.notif = IF notificationCount.num = 0
                                      THEN ErrorGlyph
                                      ELSE notificationCount
        /\ ~errorDidOccur =>
              /\ faviconBadge.bgColor = NeutralColour
              /\ faviconBadge.notif = notificationCount
        /\ ErrorColour # NeutralColour

C3_Witness ==
    /\ lastCall.renders = 1
    /\ errorDidOccur
    /\ notificationCount = Num(0)
    /\ faviconBadge.notif = ErrorGlyph

\* C7: when the renderer throws during a setter's render, a warning is
\* logged, nothing reaches the caller, and the field holds the new value.
C7_RendererFailureContained ==
    (lastCall.op \in Setters /\ lastCall.rendererThrew) =>
        /\ lastCall.warned
        /\ ~lastCall.escaped
        /\ StoredNow(lastCall) = lastCall.arg
        /\ StoredBefore(lastCall) # lastCall.arg

C7_Witness ==
    /\ lastCall.op = "setErrorStatus"
    /\ lastCall.rendererThrew
    /\ errorDidOccur

----------------------------------------------------------------------------
(* Properties of version polling *)

Polls == {i \in 1..Len(calls) : calls[i].op = "pollForUpdate"}
Gets == {i \in 1..Len(calls) : calls[i].op = "getAppVersion"}

\* the polls whose fulfilment handler has run, in the order they ran
SucceededPolls ==
    LET Ok(i) == calls[i].promise.state = "fulfilled"
    IN  SelectSeq(SubSeq(handlerQueue, 1, handled), Ok)

Fetched(i) == calls[i].promise.value

\* the actions call i handed to the dispatcher
DispatchedBy(i) ==
    LET Mine(e) == e.by = <<"poll", i>> /\ e.call = "dis.dispatch"
        mine == SelectSeq(effects, Mine)
    IN  [k \in 1..Len(mine) |-> mine[k].payload]

NewVersion(old, new) ==
    [action |-> "new_version", currentVersion |-> old, newVersion |-> new]

\* C1: of the polls that completed successfully, the first stores what it
\* fetched and dispatches nothing; each later one dispatches one
\* new_version action, carrying the stored and the fetched identifier, when
\* the two differ, and nothing when they are the same.
C1_SignalIffDivergent ==
    LET S == SucceededPolls
    IN  /\ S # <<>> =>
              /\ runningVersion = Fetched(S[1])
              /\ DispatchedBy(S[1]) = <<>>
        /\ \A k \in 2..Len(S) :
              DispatchedBy(S[k]) =
                  IF Fetched(S[k]) = Fetched(S[1])
                  THEN <<>>
                  ELSE <<NewVersion(Fetched(S[1]), Fetched(S[k]))>>

\* polls fetching a, b, a: one signal, by the second
C1_Witness ==
    LET S == SucceededPolls
    IN  /\ Len(S) = 3
        /\ Fetched(S[1]) = Str(<<"a">>)
        /\ Fetched(S[2]) = Str(<<"b">>)
        /\ Fetched(S[3]) = Str(<<"a">>)
        /\ Len(effects) = 1
        /\ effects[1].by = <<"poll", S[2]>>

Storers == {i \in Polls : calls[i].stored}

\* C4: runningVersion starts null and, once it holds an identifier, no step
\* changes it; one poll stores it, whatever the order of the responses.
C4_WriteOnce ==
    /\ runningVersion = Null
    /\ [][runningVersion # Null => runningVersion' = runningVersion]_vars
    /\ [](Cardinality(Storers) = IF runningVersion = Null THEN 0 ELSE 1)

\* two polls answered in the reverse of their call order, with different
\* identifiers, and both handlers have run
C4_Witness ==
    /\ Len(handlerQueue) >= 2
    /\ handled >= 2
    /\ handlerQueue[1] > handlerQueue[2]
    /\ calls[handlerQueue[1]].promise.state = "fulfilled"
    /\ calls[handlerQueue[2]].promise.state = "fulfilled"
    /\ Fetched(handlerQueue[1]) # Fetched(handlerQueue[2])
    /\ runningVersion = Fetched(handlerQueue[1])

\* a response that _getVersion must treat as a failure
Failed(r) ==
    \/ r.err # Null
    \/ r.response.status \notin 200..299

\* v is b without its leading and trailing white space
IsTrimOf(v, b) ==
    /\ \E lead \in 0..Len(b) :
          /\ lead + Len(v) <= Len(b)
          /\ SubSeq(b, lead + 1, lead + Len(v)) = v
          /\ \A k \in 1..Len(b) :
                (k <= lead \/ k > lead + Len(v)) => b[k] \in {" ", "\n", "\t"}
    /\ v # <<>> => v[1] \notin {" ", "\n", "\t"}
                   /\ v[Len(v)] \notin {" ", "\n", "\t"}

\* C5: getAppVersion called while runningVersion is known makes no request
\* and returns it; called while it is null makes one request and returns
\* that request's result; no getAppVersion stores anything: runningVersion
\* is only ever what a poll stored.
C5_GetAppVersion ==
    /\ \A i \in Gets :
          LET c == calls[i]
          IN  IF c.rvAtCall # Null
              THEN c.requests = 0 /\ c.promise = Fulfilled(c.rvAtCall)
              ELSE /\ c.requests = 1
                   /\ c.response = Null => c.promise = Pending
                   /\ c.response # Null =>
                         IF Failed(c.response)
                         THEN c.promise.state = "rejected"
                         ELSE /\ c.promise.state = "fulfilled"
                              /\ c.promise.value.type = "string"
                              /\ IsTrimOf(c.promise.value.str,
                                          c.response.body)
    /\ runningVersion # Null =>
          \E i \in Storers : runningVersion = Fetched(i)

\* a getAppVersion fetches and gets b; then the first poll stores a without
\* a signal; then a getAppVersion is answered from the stored value
C5_Witness ==
    /\ Len(calls) = 3
    /\ calls[1].op = "getAppVersion"
    /\ calls[1].promise = Fulfilled(Str(<<"b">>))
    /\ calls[2].op = "pollForUpdate"
    /\ calls[2].stored
    /\ runningVersion = Str(<<"a">>)
    /\ calls[3].op = "getAppVersion"
    /\ calls[3].requests = 0
    /\ calls[3].promise = Fulfilled(Str(<<"a">>))
    /\ effects = <<>>

\* C6: a poll whose fetch fails is rejected, and its handler only logs:
\* nothing escapes, nothing is stored or dispatched, and the step leaves
\* runningVersion and the dispatched actions as they were; so
\* runningVersion is null exactly when no poll has succeeded so far.
C6_FailedPollIsSilent ==
    /\ [](\A i \in Polls :
            (calls[i].response # Null /\ Failed(calls[i].response)) =>
                /\ calls[i].promise.state = "rejected"
                /\ ~calls[i].stored
                /\ ~calls[i].escaped
                /\ DispatchedBy(i) = <<>>
                /\ calls[i].ran => calls[i].logged)
    /\ []((runningVersion = Null) <=> (SucceededPolls = <<>>))
    /\ [][\A i \in Polls :
            (/\ ~calls[i].ran
             /\ calls'[i].ran
             /\ Failed(calls[i].response))
            => UNCHANGED <<runningVersion, effects>>]_vars

\* the first poll failed on its status and was logged; the next one
\* succeeded and was treated as the first
C6_Witness ==
    /\ Len(calls) >= 2
    /\ calls[1].op = "pollForUpdate"
    /\ calls[1].ran
    /\ calls[1].logged
    /\ calls[1].promise = Rejected(Obj([status |-> 300]))
    /\ calls[2].op = "pollForUpdate"
    /\ calls[2].stored
    /\ handlerQueue[1] = 1
    /\ effects = <<>>

----------------------------------------------------------------------------
(* Properties of the permission request *)

\* C8: the promise of a permission request is pending until the browser's
\* callback has run, and from then on is fulfilled with the string the
\* callback delivered first: a further run of the callback changes nothing.
C8_ResolvesOnce ==
    \A i \in 1..Len(permReqs) :
        LET r == permReqs[i]
        IN  IF r.delivered = <<>>
            THEN r.promise = Pending
            ELSE r.promise = Fulfilled(r.delivered[1])

\* the callback ran twice with different answers
C8_Witness ==
    \E i \in 1..Len(permReqs) :
        /\ Len(permReqs[i].delivered) = 2
        /\ permReqs[i].delivered[1] # permReqs[i].delivered[2]
        /\ permReqs[i].promise = Fulfilled(permReqs[i].delivered[1])

----------------------------------------------------------------------------
(* Properties of desktop notifications *)

ClickEffects(n) ==
    LET Mine(e) == e.by = <<"click", n>>
    IN  SelectSeq(effects, Mine)

ViewRoomCount ==
    Cardinality({k \in 1..Len(effects) :
                    /\ effects[k].call = "dis.dispatch"
                    /\ effects[k].payload.action = "view_room"})

\* C9: a click on a notification dispatches view_room for the room the
\* notification was created with, then focuses the window, then closes the
\* notification, the three one after the other; a notification that was
\* not clicked has dispatched nothing.
C9_ClickRoutesToRoom ==
    /\ \A n \in 1..Len(notifications) :
          IF notifications[n].clicked
          THEN /\ \E k \in 1..(Len(effects) - 2) :
                     /\ effects[k].by = <<"click", n>>
                     /\ effects[k].call = "dis.dispatch"
                     /\ effects[k].payload =
                            [action |-> "view_room",
                             room_id |-> notifications[n].room.roomId]
                     /\ effects[k + 1].by = <<"click", n>>
                     /\ effects[k + 1].call = "global.focus"
                     /\ effects[k + 2].by = <<"click", n>>
                     /\ effects[k + 2].call = "notification.close"
               /\ Len(ClickEffects(n)) = 3
               /\ ~notifications[n].open
          ELSE ClickEffects(n) = <<>>
    /\ ViewRoomCount =
          Cardinality({n \in 1..Len(notifications) : notifications[n].clicked})

\* two notifications for different rooms, the second clicked, the first not
C9_Witness ==
    /\ Len(notifications) = 2
    /\ notifications[1].room # notifications[2].room
    /\ ~notifications[1].clicked
    /\ notifications[2].clicked
    /\ ViewRoomCount = 1

AutoCloseMs == 5000

\* C10: every notification has one timer of 5000 ms, armed when it is
\* created; a click leaves the timer armed; the timer fires in the end,
\* whether the notification was clicked or not, and once it has fired the
\* notification is closed.
C10_AutoClose ==
    /\ [](\A n \in 1..Len(notifications) :
            /\ notifications[n].timer.state \in {"armed", "fired"}
            /\ notifications[n].timer.delay = AutoCloseMs
            /\ notifications[n].timer.state = "fired" => ~notifications[n].open
            /\ Cardinality({k \in 1..Len(effects) :
                              effects[k].by = <<"timer", n>>}) =
                  IF notifications[n].timer.state = "fired" THEN 1 ELSE 0)
    /\ [][\A n \in 1..Len(notifications) :
            (~notifications[n].clicked /\ notifications'[n].clicked) =>
                notifications'[n].timer = notifications[n].timer]_vars
    /\ \A n \in 1..MaxNotifications :
          [](Len(notifications) >= n =>
                <>(/\ Len(notifications) >= n
                   /\ notifications[n].timer.state = "fired"
                   /\ ~notifications[n].open))

\* a notification closed by a click whose timer fired afterwards
C10_Witness ==
    \E n \in 1..Len(notifications) :
        /\ notifications[n].clicked
        /\ notifications[n].timer.state = "fired"
        /\ \E k \in 1..Len(effects) :
              /\ effects[k].by = <<"timer", n>>
              /\ \E j \in 1..(k - 1) : effects[j].by = <<"click", n>>

====
